---- MODULE Spec2Model ----
(***************************************************************************)
(* Matchmaking-and-session coordinator of uschika (server/index.js, the    *)
(* socket.io 'connection' block): the waiting queue, the active-chat map,  *)
(* the socket.io rooms the handlers join and leave, and the asynchronous   *)
(* operations (User.findOne / user.save, Message.create) that suspend the  *)
(* login and sendMessage handlers; the per-socket rate limiter; and the    *)
(* browser client (client/src: the chat store and the socket listeners).   *)
(*                                                                         *)
(* A socket id is a fresh random string for every connection, so each      *)
(* element of Conns is connected at most once.                             *)
(***************************************************************************)
EXTENDS Integers, Sequences, FiniteSets

\* ------------------------------------------------------------------ bounds
NumConns == 3        \* sockets that connect during a run
NumEmails == 2       \* distinct user emails holding valid tokens
MaxInFlight == 1     \* awaited database operations outstanding at once
MaxReLogins == 1     \* login requests on sockets that have already sent one

Conns == 1..NumConns
Emails == 1..NumEmails

\* socket.user is undefined until a login succeeds
NoUser == 0
\* a token that verifyToken rejects, or whose email fails isValidEmail
BadToken == 0
Tokens == {BadToken} \cup Emails

\* --------------------------------------------------------- message content
SP == 0               \* a whitespace character
CH == 1               \* any other character
NonChar == 2          \* marks a payload that is not a string at all
NotAString == <<NonChar>>   \* a content whose typeof is not 'string'
MAX_MESSAGE_LENGTH == 1000
Contents == {NotAString, <<SP>>, <<SP, CH, SP>>}

IsString(x) == x # NotAString

RECURSIVE TrimStart(_)
TrimStart(s) == IF s # <<>> /\ Head(s) = SP THEN TrimStart(Tail(s)) ELSE s

RECURSIVE TrimEnd(_)
TrimEnd(s) ==
  IF s # <<>> /\ s[Len(s)] = SP THEN TrimEnd(SubSeq(s, 1, Len(s) - 1)) ELSE s

Min(a, b) == IF a < b THEN a ELSE b

\* a sanitizer that returns its input as it is
sanitizeNothing(str, maxLength) == str

\* str.trim().slice(0, maxLength), '' for a non-string
sanitizeInput(str, maxLength) ==
  IF ~IsString(str) THEN <<>>
  ELSE LET t == TrimEnd(TrimStart(str)) IN SubSeq(t, 1, Min(Len(t), maxLength))

\* jwt.verify + isValidEmail: the email of a valid token, NoUser otherwise
verifyToken(token) == IF token \in Emails THEN token ELSE NoUser

\* ------------------------------------------------------------------- state
VARIABLES
  status,        \* socket -> "new" (not yet connected) | "open" | "closed"
  user,          \* socket.user, as the user's email, or NoUser
  waitingUsers,  \* the FIFO queue of waiting sockets
  activeChats,   \* Map: socket id -> [partnerId, roomId]
  rooms,         \* socket.io room membership: set of <<socket, roomId>>
  pending,       \* awaited database operations, in the order they were issued
  relogins,      \* how many login requests repeated an earlier one on their socket
  now,           \* Date.now(), in milliseconds since the server started
  socketRateLimits,  \* Map: `${socketId}:${action}` -> [count, windowStart]
  watch,         \* an observer counting the accepted requests of one key in one minute
  inbox,         \* notifications on their way to the browser client
  store          \* the browser client's chat store and token

limiterVars == <<now, socketRateLimits, watch>>
clientVars == <<inbox, store>>
vars == <<status, user, waitingUsers, activeChats, rooms, pending, relogins,
          limiterVars, clientVars>>

\* `room-${socket.id}-${partnerSocket.id}`
RoomId(searcher, partner) == <<searcher, partner>>
NoRoom == <<>>

\* ----------------------------------------------------------------- helpers
Range(s) == {s[i] : i \in DOMAIN s}

\* Array.prototype.splice(i, 1)
RemoveAt(s, i) == SubSeq(s, 1, i - 1) \o SubSeq(s, i + 1, Len(s))

\* a search that returns the last match instead of the first
FindIndexLast(matching) ==
  IF matching = {} THEN 0 ELSE CHOOSE i \in matching : \A j \in matching : i >= j

\* Array.prototype.findIndex over a predicate given as the set of indices
\* that satisfy it; 0 stands for -1
FindIndex(matching) ==
  IF matching = {} THEN 0 ELSE CHOOSE i \in matching : \A j \in matching : i <= j

\* a lookup that never finds the socket
NeverFound(s, c) == 0

\* waitingUsers.findIndex(s => s.id === socket.id)
IndexOf(s, c) == FindIndex({i \in DOMAIN s : s[i] = c})

\* a Map whose set() stores nothing
MapSetNothing(m, k, v) == m

\* Map.prototype.set
MapSet(m, k, v) == [x \in DOMAIN m \cup {k} |-> IF x = k THEN v ELSE m[x]]
\* Map.prototype.delete
MapDelete(m, k) == [x \in DOMAIN m \ {k} |-> m[x]]

Note(to, ev, from, roomId, content) ==
  [to |-> to, ev |-> ev, from |-> from, roomId |-> roomId, content |-> content]

\* socket.emit(ev): a packet to a socket that has closed is discarded
Emit(c, ev, roomId) ==
  IF status[c] = "open" THEN <<Note(c, ev, c, roomId, <<>>)>> ELSE <<>>

RECURSIVE SeqOfSet(_)
SeqOfSet(S) ==
  IF S = {} THEN <<>>
  ELSE LET x == CHOOSE y \in S : \A z \in S : y <= z IN <<x>> \o SeqOfSet(S \ {x})

Members(rms, roomId) == {c \in Conns : <<c, roomId>> \in rms}

\* socket.to(roomId).emit(ev): every member of the room except the sender
ToRoom(rms, sender, roomId, ev, content) ==
  LET rcv == SeqOfSet(Members(rms, roomId) \ {sender})
  IN [i \in DOMAIN rcv |-> Note(rcv[i], ev, sender, roomId, content)]

PendingOp(op, c, email, roomId, content) ==
  [op |-> op, c |-> c, email |-> email, roomId |-> roomId, content |-> content]

\* A handler is a function of the current state and its arguments: it yields
\* the state it leaves behind and, in `sent`, the notifications it delivers,
\* in the order it emits them.
Cur ==
  [status |-> status, user |-> user, waitingUsers |-> waitingUsers,
   activeChats |-> activeChats, rooms |-> rooms, pending |-> pending,
   sent |-> <<>>]

Becomes(r) ==
  /\ status' = r.status
  /\ user' = r.user
  /\ waitingUsers' = r.waitingUsers
  /\ activeChats' = r.activeChats
  /\ rooms' = r.rooms
  /\ pending' = r.pending

\* ----------------------------------------------------------- rate limiting
windowMs == 60000          \* const windowMs
SearchLimit == 10          \* checkSocketRateLimit(socket.id, 'search', 10)
MessageLimit == 30         \* checkSocketRateLimit(socket.id, 'message', 30)
CleanupPeriod == 60000     \* setInterval(..., 60000)
CleanupAge == 120000       \* now - value.windowStart > 120000

\* `${socketId}:${action}`
LimiterKey(c, action) == <<c, action>>

MaxPerMinute(action) == IF action = "search" THEN SearchLimit ELSE MessageLimit

\* a limiter that admits every request
checkNothing(limits, t, key, maxPerMinute) == [ok |-> TRUE, limits |-> limits]

\* checkSocketRateLimit at time t: whether the request is admitted, and the
\* socketRateLimits map the call leaves behind
checkSocketRateLimit(limits, t, key, maxPerMinute) ==
  IF key \notin DOMAIN limits
  THEN [ok |-> TRUE,
        limits |-> MapSet(limits, key, [count |-> 1, windowStart |-> t])]
  ELSE IF t - limits[key].windowStart > windowMs
  THEN [ok |-> TRUE,
        limits |-> MapSet(limits, key, [count |-> 1, windowStart |-> t])]
  ELSE IF limits[key].count >= maxPerMinute
  THEN [ok |-> FALSE, limits |-> limits]
  ELSE [ok |-> TRUE,
        limits |-> MapSet(limits, key,
                          [count |-> limits[key].count + 1,
                           windowStart |-> limits[key].windowStart])]

\* The observer: it watches the requests of one action, starts its minute at
\* a moment of its choice (start = NoMark until then) and counts what the
\* limiter admits during that minute.  `aligned` tells whether its minute
\* began when the key had no running window.
NoMark == 0 - 1
NoWatch ==
  [action |-> "search", c |-> 0, start |-> NoMark, aligned |-> FALSE, seen |-> 0]

\* ------------------------------------------------------------ browser client
\* chatStore.js, initial state, and the token in localStorage
InitialStore ==
  [isSearching |-> FALSE, isMatched |-> FALSE, partnerConnected |-> TRUE,
   messages |-> <<>>, authToken |-> TRUE]

\* -------------------------------------------------------------------- Init
Init ==
  /\ status = [c \in Conns |-> "new"]
  /\ user = [c \in Conns |-> NoUser]
  /\ waitingUsers = <<>>
  /\ activeChats = <<>>
  /\ rooms = {}
  /\ pending = <<>>
  /\ relogins = 0
  /\ now = 0
  /\ socketRateLimits = <<>>
  /\ watch = NoWatch
  /\ inbox = <<>>
  /\ store = InitialStore

\* io.on('connection'): sockets are numbered in the order they connect
Connection(c) ==
  /\ status[c] = "new"
  /\ \A d \in Conns : d < c => status[d] # "new"
  /\ status' = [status EXCEPT ![c] = "open"]
  /\ UNCHANGED <<user, waitingUsers, activeChats, rooms, pending, relogins>>
  /\ UNCHANGED <<limiterVars, clientVars>>

\* ------------------------------------------------------------- disconnect
\* What socket.io and the 'disconnect' handler do when socket c closes.  The
\* socket has left all its rooms before the handler runs (Socket._onclose
\* calls leaveAll, then emits 'disconnect').  `before` are the notifications
\* the closing handler had delivered already.
OnDisconnect(c, before) ==
  LET rooms1 == {m \in rooms : m[1] # c}
      index == IndexOf(waitingUsers, c)
      queue1 == IF index # 0 THEN RemoveAt(waitingUsers, index) ELSE waitingUsers
      closed == [Cur EXCEPT !.status = [status EXCEPT ![c] = "closed"],
                            !.rooms = rooms1,
                            !.waitingUsers = queue1,
                            !.sent = before]
  IN IF c \in DOMAIN activeChats
     THEN LET chatInfo == activeChats[c]
          IN [closed EXCEPT
                !.sent = before \o ToRoom(rooms1, c, chatInfo.roomId, "partnerDisconnected", <<>>),
                !.activeChats = MapDelete(MapDelete(activeChats, c), chatInfo.partnerId)]
     ELSE closed

\* socket.on('disconnect'): the client closed the connection or it dropped
DisconnectResult(c) == OnDisconnect(c, <<>>)

Disconnect(c) ==
  /\ status[c] = "open"
  /\ Becomes(DisconnectResult(c))
  /\ UNCHANGED <<relogins, limiterVars, clientVars>>

\* ------------------------------------------------------------------ login
\* socket.on('login'), up to the await of User.findOne
LoginResult(c, token) ==
  LET userData == verifyToken(token)
  IN IF userData = NoUser
     THEN OnDisconnect(c, Emit(c, "unauthorized", NoRoom))
     ELSE [Cur EXCEPT !.pending = Append(pending, PendingOp("login", c, userData, NoRoom, <<>>))]

\* TRUE when socket c has sent a login request with a valid token before
HasLoggedIn(c) ==
  \/ user[c] # NoUser
  \/ \E i \in DOMAIN pending : pending[i].op = "login" /\ pending[i].c = c

Login(c, token) ==
  /\ status[c] = "open"
  /\ verifyToken(token) # NoUser => Len(pending) < MaxInFlight
  /\ HasLoggedIn(c) => relogins < MaxReLogins
  /\ relogins' = IF HasLoggedIn(c) THEN relogins + 1 ELSE relogins
  /\ UNCHANGED <<limiterVars, clientVars>>
  /\ Becomes(LoginResult(c, token))

\* socket.on('login') resumed: User.findOne (and user.save) resolved
LoginResolvedResult(i) ==
  LET c == pending[i].c
  IN [Cur EXCEPT !.user = [user EXCEPT ![c] = pending[i].email],
                 !.pending = RemoveAt(pending, i),
                 !.sent = Emit(c, "loginSuccess", NoRoom)]

LoginResolved(i) ==
  /\ i \in DOMAIN pending
  /\ pending[i].op = "login"
  /\ Becomes(LoginResolvedResult(i))
  /\ UNCHANGED <<relogins, limiterVars, clientVars>>

\* socket.on('login') resumed in the catch block: the database call rejected;
\* socket.disconnect() does nothing on a socket that has already closed
LoginRejectedResult(i) ==
  LET c == pending[i].c
      r == IF status[c] = "open"
           THEN OnDisconnect(c, Emit(c, "unauthorized", NoRoom))
           ELSE Cur
  IN [r EXCEPT !.pending = RemoveAt(pending, i)]

LoginRejected(i) ==
  /\ i \in DOMAIN pending
  /\ pending[i].op = "login"
  /\ Becomes(LoginRejectedResult(i))
  /\ UNCHANGED <<relogins, limiterVars, clientVars>>

\* ----------------------------------------------------------- rate limiting
\* checkSocketRateLimit(socket.id, action, max) returns false when this socket
\* has had max requests of that action accepted inside the current one-minute
\* window.  Where the clock does not advance the limiter's answer is an
\* input of the handler; SpecRate computes it from socketRateLimits.  A refused request changes nothing and
\* notifies nobody.
RateLimitOutcomes == BOOLEAN

\* ----------------------------------------------------------------- search
\* a duplicate check that never finds the socket
NeverInQueue(c) == FALSE

\* waitingUsers.some(s => s.id === socket.id)
InQueue(c) == \E i \in DOMAIN waitingUsers : waitingUsers[i] = c

\* a search that enqueues the socket without looking at its identity
SearchUnchecked(c, allowed) ==
  [Cur EXCEPT !.waitingUsers = Append(waitingUsers, c),
              !.sent = Emit(c, "searching", NoRoom)]

\* socket.on('search')
SearchResult(c, allowed) ==
  IF user[c] = NoUser
  THEN [Cur EXCEPT !.sent = Emit(c, "unauthorized", NoRoom)]
  ELSE IF ~allowed
  THEN Cur
  ELSE IF InQueue(c)
  THEN [Cur EXCEPT !.sent = Emit(c, "searching", NoRoom)]
  ELSE LET partnerIndex ==
             FindIndex({i \in DOMAIN waitingUsers : user[waitingUsers[i]] # user[c]})
       IN IF partnerIndex # 0
          THEN LET partnerSocket == waitingUsers[partnerIndex]
                   roomId == RoomId(c, partnerSocket)
               IN [Cur EXCEPT
                     !.waitingUsers = RemoveAt(waitingUsers, partnerIndex),
                     !.rooms = rooms \cup {<<c, roomId>>, <<partnerSocket, roomId>>},
                     !.activeChats =
                        MapSet(MapSet(activeChats, c,
                                      [partnerId |-> partnerSocket, roomId |-> roomId]),
                               partnerSocket, [partnerId |-> c, roomId |-> roomId]),
                     !.sent = Emit(c, "matched", roomId)
                              \o Emit(partnerSocket, "matched", roomId)]
          ELSE [Cur EXCEPT !.waitingUsers = Append(waitingUsers, c),
                           !.sent = Emit(c, "searching", NoRoom)]

Search(c, allowed) ==
  /\ status[c] = "open"
  /\ Becomes(SearchResult(c, allowed))
  /\ UNCHANGED <<relogins, limiterVars, clientVars>>

\* a stopSearch that does nothing
StopSearchNothing(c) == Cur

\* socket.on('stopSearch')
StopSearchResult(c) ==
  LET index == IndexOf(waitingUsers, c)
  IN [Cur EXCEPT
        !.waitingUsers = IF index # 0 THEN RemoveAt(waitingUsers, index) ELSE waitingUsers,
        !.sent = Emit(c, "searchStopped", NoRoom)]

StopSearch(c) ==
  /\ status[c] = "open"
  /\ Becomes(StopSearchResult(c))
  /\ UNCHANGED <<relogins, limiterVars, clientVars>>

\* ------------------------------------------------------------ sendMessage
\* socket.on('sendMessage'): TRUE when the handler reaches Message.create
Accepts(c, content, allowed) ==
  /\ allowed
  /\ c \in DOMAIN activeChats
  /\ user[c] # NoUser
  /\ IsString(content)
  /\ Len(sanitizeInput(content, MAX_MESSAGE_LENGTH)) # 0

\* socket.on('sendMessage'), up to the await of Message.create
SendMessageResult(c, content, allowed) ==
  IF Accepts(c, content, allowed)
  THEN [Cur EXCEPT !.pending =
          Append(pending, PendingOp("message", c, NoUser, activeChats[c].roomId,
                                    sanitizeInput(content, MAX_MESSAGE_LENGTH)))]
  ELSE Cur

SendMessage(c, content, allowed) ==
  /\ status[c] = "open"
  /\ Accepts(c, content, allowed) => Len(pending) < MaxInFlight
  /\ Becomes(SendMessageResult(c, content, allowed))
  /\ UNCHANGED <<relogins, limiterVars, clientVars>>

\* socket.on('sendMessage') resumed: Message.create resolved, and the message
\* is broadcast to the room that the handler read before the await
MessageCreatedResult(i) ==
  [Cur EXCEPT !.pending = RemoveAt(pending, i),
              !.sent = ToRoom(rooms, pending[i].c, pending[i].roomId,
                              "receiveMessage", pending[i].content)]

MessageCreated(i) ==
  /\ i \in DOMAIN pending
  /\ pending[i].op = "message"
  /\ Becomes(MessageCreatedResult(i))
  /\ UNCHANGED <<relogins, limiterVars, clientVars>>

\* socket.on('sendMessage') resumed in the catch block: Message.create rejected
MessageRejectedResult(i) == [Cur EXCEPT !.pending = RemoveAt(pending, i)]

MessageRejected(i) ==
  /\ i \in DOMAIN pending
  /\ pending[i].op = "message"
  /\ Becomes(MessageRejectedResult(i))
  /\ UNCHANGED <<relogins, limiterVars, clientVars>>

\* ---------------------------------------------------------------- endChat
\* an endChat that closes the connection
EndChatClosing(c) == OnDisconnect(c, <<>>)

\* socket.on('endChat')
EndChatResult(c) ==
  IF c \in DOMAIN activeChats
  THEN LET chatInfo == activeChats[c]
       IN [Cur EXCEPT
             !.sent = ToRoom(rooms, c, chatInfo.roomId, "partnerDisconnected", <<>>),
             !.rooms = rooms \ {<<c, chatInfo.roomId>>,
                                <<chatInfo.partnerId, chatInfo.roomId>>},
             !.activeChats = MapDelete(MapDelete(activeChats, c), chatInfo.partnerId)]
  ELSE Cur

EndChat(c) ==
  /\ status[c] = "open"
  /\ Becomes(EndChatResult(c))
  /\ UNCHANGED <<relogins, limiterVars, clientVars>>

\* ------------------------------------------------------------------ /health
\* n / 2 of a JavaScript number: the whole part, and whether a half is left
Halve(n) == [whole |-> n \div 2, half |-> n % 2]

\* app.get('/health'): the two counts of the report; the handler reads
\* waitingUsers and activeChats and assigns nothing
health ==
  [waitingQueue |-> Len(waitingUsers),
   activeChats |-> Halve(Cardinality(DOMAIN activeChats))]

\* ------------------------------------------------------------------- Next
Next ==
  \/ \E c \in Conns : Connection(c)
  \/ \E c \in Conns, token \in Tokens : Login(c, token)
  \/ \E i \in 1..MaxInFlight : LoginResolved(i)
  \/ \E i \in 1..MaxInFlight : LoginRejected(i)
  \/ \E c \in Conns, allowed \in RateLimitOutcomes : Search(c, allowed)
  \/ \E c \in Conns : StopSearch(c)
  \/ \E c \in Conns, content \in Contents, allowed \in RateLimitOutcomes :
       SendMessage(c, content, allowed)
  \/ \E i \in 1..MaxInFlight : MessageCreated(i)
  \/ \E i \in 1..MaxInFlight : MessageRejected(i)
  \/ \E c \in Conns : EndChat(c)
  \/ \E c \in Conns : Disconnect(c)

Spec == Init /\ [][Next]_vars

\* ------------------------------------------------- several writes in flight
\* The same server with up to MaxChatInFlight Message.create calls outstanding
\* at once and messages of different content, between the first NumChatConns
\* sockets; every socket logs in once.
NumChatConns == 2
MaxChatInFlight == 2
ChatConns == 1..NumChatConns
\* a content one character longer than the limit, between two blanks
LongContent == <<SP>> \o [i \in 1..(MAX_MESSAGE_LENGTH + 1) |-> CH] \o <<SP>>
ChatContents == {NotAString, <<SP>>, <<SP, CH, SP>>, LongContent}

\* socket.on('login') on a socket that has not sent a login request yet
FirstLogin(c, token) ==
  /\ ~HasLoggedIn(c)
  /\ Login(c, token)

\* socket.on('sendMessage') while fewer than MaxChatInFlight writes are pending
SendChat(c, content, allowed) ==
  /\ status[c] = "open"
  /\ Accepts(c, content, allowed) => Len(pending) < MaxChatInFlight
  /\ Becomes(SendMessageResult(c, content, allowed))
  /\ UNCHANGED <<relogins, limiterVars, clientVars>>

NextChat ==
  \/ \E c \in ChatConns : Connection(c)
  \/ \E c \in ChatConns, token \in Tokens : FirstLogin(c, token)
  \/ \E i \in 1..MaxChatInFlight : LoginResolved(i)
  \/ \E i \in 1..MaxChatInFlight : LoginRejected(i)
  \/ \E c \in ChatConns, allowed \in RateLimitOutcomes : Search(c, allowed)
  \/ \E c \in ChatConns : StopSearch(c)
  \/ \E c \in ChatConns, content \in ChatContents, allowed \in RateLimitOutcomes :
       SendChat(c, content, allowed)
  \/ \E i \in 1..MaxChatInFlight : MessageCreated(i)
  \/ \E i \in 1..MaxChatInFlight : MessageRejected(i)
  \/ \E c \in ChatConns : EndChat(c)
  \/ \E c \in ChatConns : Disconnect(c)

SpecChat == Init /\ [][NextChat]_vars

\* -------------------------------------------------- the limiter, with a clock
\* The same server with checkSocketRateLimit computed from socketRateLimits and
\* the clock instead of being an input.  A run exercises the limit of one
\* action (watch.action): the keys of the two actions are different entries of
\* the Map and no call reads more than its own.
NumRateConns == 1
RateConns == 1..NumRateConns
LimitedActions == {"search", "message"}
\* the instants at which the clock is read after the start
Times == {windowMs, windowMs + 1, 3 * CleanupPeriod}

InitRate ==
  /\ status = [c \in Conns |-> "new"]
  /\ user = [c \in Conns |-> NoUser]
  /\ waitingUsers = <<>>
  /\ activeChats = <<>>
  /\ rooms = {}
  /\ pending = <<>>
  /\ relogins = 0
  /\ now = 0
  /\ socketRateLimits = <<>>
  /\ \E action \in LimitedActions : watch = [NoWatch EXCEPT !.action = action]
  /\ inbox = <<>>
  /\ store = InitialStore

\* socket.on('disconnect'): the entries of a closed socket are deleted
DropClosed(limits, st) ==
  [key \in {k \in DOMAIN limits : st[k[1]] = "open"} |-> limits[key]]

\* a handler leaves the server in r and the limiter's Map as limits
RateStep(r, limits) ==
  /\ Becomes(r)
  /\ socketRateLimits' = DropClosed(limits, r.status)
  /\ UNCHANGED <<relogins, now, clientVars>>

\* TRUE when the key has no window running at time t
NoWindow(limits, t, key) ==
  key \notin DOMAIN limits \/ t - limits[key].windowStart > windowMs

\* the observer starts its minute, on the key of socket c
StartWatch(c) ==
  /\ watch.start = NoMark
  /\ status[c] = "open"
  /\ watch' = [watch EXCEPT
                 !.c = c, !.start = now,
                 !.aligned = NoWindow(socketRateLimits, now,
                                      LimiterKey(c, watch.action))]
  /\ UNCHANGED <<status, user, waitingUsers, activeChats, rooms, pending,
                 relogins, now, socketRateLimits, clientVars>>

\* the observer after a request of socket c that the limiter answered with ok
Observed(c, action, ok) ==
  IF /\ ok /\ watch.action = action /\ watch.c = c
     /\ watch.start # NoMark /\ now - watch.start < windowMs
  THEN [watch EXCEPT !.seen = @ + 1]
  ELSE watch

\* Date.now() advances
Tick(t) ==
  /\ t > now
  /\ now' = t
  /\ UNCHANGED <<status, user, waitingUsers, activeChats, rooms, pending,
                 relogins, socketRateLimits, watch, clientVars>>

\* setInterval: entries whose window started more than two minutes ago go
CleanupRateLimits ==
  /\ now > 0 /\ now % CleanupPeriod = 0
  /\ socketRateLimits' =
       [key \in {k \in DOMAIN socketRateLimits :
                   ~(now - socketRateLimits[k].windowStart > CleanupAge)}
          |-> socketRateLimits[key]]
  /\ UNCHANGED <<status, user, waitingUsers, activeChats, rooms, pending,
                 relogins, now, watch, clientVars>>

RateLogin(c, token) ==
  /\ status[c] = "open"
  /\ ~HasLoggedIn(c)
  /\ verifyToken(token) # NoUser => Len(pending) < MaxInFlight
  /\ RateStep(LoginResult(c, token), socketRateLimits)
  /\ UNCHANGED watch

RateLoginResolved(i) ==
  /\ i \in DOMAIN pending
  /\ pending[i].op = "login"
  /\ RateStep(LoginResolvedResult(i), socketRateLimits)
  /\ UNCHANGED watch

RateLoginRejected(i) ==
  /\ i \in DOMAIN pending
  /\ pending[i].op = "login"
  /\ RateStep(LoginRejectedResult(i), socketRateLimits)
  /\ UNCHANGED watch

\* socket.on('search') with the limiter's own answer
RateSearch(c) ==
  /\ status[c] = "open"
  /\ watch.action = "search"
  /\ IF user[c] = NoUser
     THEN /\ RateStep(SearchResult(c, TRUE), socketRateLimits)
          /\ UNCHANGED watch
     ELSE LET lim == checkSocketRateLimit(socketRateLimits, now,
                                          LimiterKey(c, "search"), SearchLimit)
          IN /\ RateStep(SearchResult(c, lim.ok), lim.limits)
             /\ watch' = Observed(c, "search", lim.ok)

RateStopSearch(c) ==
  /\ status[c] = "open"
  /\ RateStep(StopSearchResult(c), socketRateLimits)
  /\ UNCHANGED watch

\* socket.on('sendMessage') with the limiter's own answer
RateSendMessage(c, content) ==
  LET lim == checkSocketRateLimit(socketRateLimits, now,
                                  LimiterKey(c, "message"), MessageLimit)
  IN /\ status[c] = "open"
     /\ watch.action = "message"
     /\ Accepts(c, content, lim.ok) => Len(pending) < MaxInFlight
     /\ RateStep(SendMessageResult(c, content, lim.ok), lim.limits)
     /\ watch' = Observed(c, "message", lim.ok)

RateDisconnect(c) ==
  /\ status[c] = "open"
  /\ RateStep(DisconnectResult(c), socketRateLimits)
  /\ UNCHANGED watch

NextRate ==
  \/ \E c \in RateConns : Connection(c)
  \/ \E c \in RateConns, token \in Tokens : RateLogin(c, token)
  \/ \E i \in 1..MaxInFlight : RateLoginResolved(i)
  \/ \E i \in 1..MaxInFlight : RateLoginRejected(i)
  \/ \E c \in RateConns : RateSearch(c)
  \/ \E c \in RateConns : RateStopSearch(c)
  \/ \E c \in RateConns, content \in Contents : RateSendMessage(c, content)
  \/ \E c \in RateConns : RateDisconnect(c)
  \/ \E c \in RateConns : StartWatch(c)
  \/ \E t \in Times : Tick(t)
  \/ CleanupRateLimits

SpecRate == InitRate /\ [][NextRate]_vars

\* ------------------------------------------------------ the browser client
\* The server together with one browser that runs the repository's client
\* (socket TheClient); the other sockets are peers that may send any request.
\* A request of the client reaches the server at once; a notification of the
\* server stays in `inbox` until the client's listener handles it.
NumClientConns == 2   \* the client's socket and one peer
MaxInbox == 2         \* notifications on their way to the client at once
MaxMessages == 2      \* length of the client's message list
TheClient == 1
ClientConns == 1..NumClientConns
Peers == ClientConns \ {TheClient}
\* localStorage.getItem('authToken'): the client holds a valid token
ClientToken == 1
\* what the user may have typed into the input field
ClientTexts == {<<SP>>, <<CH>>, <<SP, CH, SP>>}

\* the argument of socket.emit('sendMessage', ...): a bare string, or an
\* object with a content field
StringPayload(text) == [kind |-> "string", content |-> text]
ObjectPayload(text) == [kind |-> "object", content |-> text]

\* async ({ content }) => ...: the content property of the payload; a string
\* has none
ContentOf(payload) ==
  IF payload.kind = "object" THEN payload.content ELSE NotAString

\* ChatWindow.jsx handleSendMessage: socket.emit('sendMessage', inputMessage)
SendMessagePayload(inputMessage) == StringPayload(inputMessage)

\* inputMessage.trim() is truthy
NotBlank(text) == TrimEnd(TrimStart(text)) # <<>>

\* chatStore.js
addMessage(st, text, sender) ==
  [st EXCEPT !.messages = Append(st.messages, [text |-> text, sender |-> sender])]
setPartnerConnected(st, b) == [st EXCEPT !.partnerConnected = b]
setSearching(st, b) == [st EXCEPT !.isSearching = b]
setMatched(st, b) == [st EXCEPT !.isMatched = b]
resetChat(st) ==
  [st EXCEPT !.isSearching = FALSE, !.isMatched = FALSE,
             !.messages = <<>>, !.partnerConnected = TRUE]

\* App.jsx listeners
handleMatched(st) == setSearching(setMatched(st, TRUE), FALSE)
handleSearchStopped(st) == setSearching(st, FALSE)
handleReceiveMessage(st, message) == addMessage(st, message.content, "partner")
handlePartnerDisconnected(st) == setPartnerConnected(st, FALSE)

\* the notifications of a handler that are addressed to the client
ToClient(sent) == SelectSeq(sent, LAMBDA n : n.to = TheClient)

\* a server handler runs: its notifications to the client go on their way
Deliver(r) ==
  /\ Len(inbox) + Len(ToClient(r.sent)) <= MaxInbox
  /\ Becomes(r)
  /\ inbox' = inbox \o ToClient(r.sent)
  /\ UNCHANGED <<relogins, limiterVars>>

\* the client's listeners are attached and the socket exists
Listening == store.authToken

\* the client's socket is connected and its 'connect' listener has run
ClientReady == Listening /\ status[TheClient] = "open" /\ HasLoggedIn(TheClient)

\* App.jsx useEffect: socket.connect()
ClientConnect ==
  /\ Listening
  /\ Connection(TheClient)

\* socket.js, socket.on('connect'): socket.emit('login', { token })
ClientLogin ==
  /\ Listening
  /\ FirstLogin(TheClient, ClientToken)

ClientLoginResolved(i) ==
  /\ i \in DOMAIN pending
  /\ pending[i].op = "login"
  /\ Deliver(LoginResolvedResult(i))
  /\ UNCHANGED store

ClientLoginRejected(i) ==
  /\ i \in DOMAIN pending
  /\ pending[i].op = "login"
  /\ Deliver(LoginRejectedResult(i))
  /\ UNCHANGED store

\* SearchScreen.jsx handleSearch
handleSearch(allowed) ==
  /\ ClientReady
  /\ ~store.isMatched /\ ~store.isSearching
  /\ store' = setSearching(store, TRUE)
  /\ Deliver(SearchResult(TheClient, allowed))

\* SearchScreen.jsx handleStopSearch
handleStopSearch ==
  /\ ClientReady
  /\ ~store.isMatched /\ store.isSearching
  /\ store' = setSearching(store, FALSE)
  /\ Deliver(StopSearchResult(TheClient))

\* ChatWindow.jsx handleSendMessage
handleSendMessage(inputMessage, allowed) ==
  /\ ClientReady
  /\ store.isMatched
  /\ NotBlank(inputMessage) /\ store.partnerConnected
  /\ Len(store.messages) < MaxMessages
  /\ Accepts(TheClient, ContentOf(SendMessagePayload(inputMessage)), allowed) =>
       Len(pending) < MaxInFlight
  /\ store' = addMessage(store, inputMessage, "me")
  /\ Deliver(SendMessageResult(TheClient, ContentOf(SendMessagePayload(inputMessage)),
                               allowed))

\* ChatWindow handleEndChat: socket.emit('endChat'); resetChat()
handleEndChat ==
  /\ Listening
  /\ store.isMatched
  /\ store' = resetChat(store)
  /\ Deliver(IF status[TheClient] = "open" THEN EndChatResult(TheClient) ELSE Cur)

\* the client's listener for the notification at the head of the inbox runs
Handles(ev) ==
  /\ Listening
  /\ inbox # <<>>
  /\ Head(inbox).ev = ev
  /\ inbox' = Tail(inbox)

ServerUnchanged ==
  UNCHANGED <<status, user, waitingUsers, activeChats, rooms, pending, relogins,
              limiterVars>>

OnMatched ==
  /\ Handles("matched")
  /\ store' = handleMatched(store)
  /\ ServerUnchanged

OnSearchStopped ==
  /\ Handles("searchStopped")
  /\ store' = handleSearchStopped(store)
  /\ ServerUnchanged

OnReceiveMessage ==
  /\ Handles("receiveMessage")
  /\ Len(store.messages) < MaxMessages
  /\ store' = handleReceiveMessage(store, Head(inbox))
  /\ ServerUnchanged

OnPartnerDisconnected ==
  /\ Handles("partnerDisconnected")
  /\ store' = handlePartnerDisconnected(store)
  /\ ServerUnchanged

\* loginSuccess changes no field of the store kept here; 'searching' has no
\* listener
OnOther ==
  /\ \E ev \in {"loginSuccess", "searching"} : Handles(ev)
  /\ UNCHANGED store
  /\ ServerUnchanged

\* socket.js, socket.on('unauthorized'): the token is removed, the socket is
\* closed with its listeners removed, and the page is loaded again
OnUnauthorized ==
  /\ Listening
  /\ inbox # <<>>
  /\ Head(inbox).ev = "unauthorized"
  /\ inbox' = <<>>
  /\ store' = [InitialStore EXCEPT !.authToken = FALSE]
  /\ Becomes(IF status[TheClient] = "open" THEN DisconnectResult(TheClient) ELSE Cur)
  /\ UNCHANGED <<relogins, limiterVars>>

\* the requests of a peer
PeerConnect(p) ==
  /\ p \in Peers
  /\ Connection(p)
PeerLogin(p, token) ==
  /\ p \in Peers
  /\ FirstLogin(p, token)
PeerSearch(p, allowed) ==
  /\ status[p] = "open"
  /\ Deliver(SearchResult(p, allowed))
  /\ UNCHANGED store
PeerStopSearch(p) ==
  /\ status[p] = "open"
  /\ Deliver(StopSearchResult(p))
  /\ UNCHANGED store
PeerSendMessage(p, content, allowed) ==
  /\ status[p] = "open"
  /\ Accepts(p, content, allowed) => Len(pending) < MaxInFlight
  /\ Deliver(SendMessageResult(p, content, allowed))
  /\ UNCHANGED store
PeerEndChat(p) ==
  /\ status[p] = "open"
  /\ Deliver(EndChatResult(p))
  /\ UNCHANGED store
PeerDisconnect(p) ==
  /\ status[p] = "open"
  /\ Deliver(DisconnectResult(p))
  /\ UNCHANGED store

ClientMessageCreated(i) ==
  /\ i \in DOMAIN pending
  /\ pending[i].op = "message"
  /\ Deliver(MessageCreatedResult(i))
  /\ UNCHANGED store

ClientMessageRejected(i) ==
  /\ i \in DOMAIN pending
  /\ pending[i].op = "message"
  /\ Deliver(MessageRejectedResult(i))
  /\ UNCHANGED store

NextClient ==
  \/ ClientConnect
  \/ ClientLogin
  \/ \E i \in 1..MaxInFlight : ClientLoginResolved(i)
  \/ \E i \in 1..MaxInFlight : ClientLoginRejected(i)
  \/ \E allowed \in RateLimitOutcomes : handleSearch(allowed)
  \/ handleStopSearch
  \/ \E text \in ClientTexts, allowed \in RateLimitOutcomes :
       handleSendMessage(text, allowed)
  \/ handleEndChat
  \/ OnMatched
  \/ OnSearchStopped
  \/ OnReceiveMessage
  \/ OnPartnerDisconnected
  \/ OnOther
  \/ OnUnauthorized
  \/ \E p \in Peers : PeerConnect(p)
  \/ \E p \in Peers, token \in Tokens : PeerLogin(p, token)
  \/ \E p \in Peers, allowed \in RateLimitOutcomes : PeerSearch(p, allowed)
  \/ \E p \in Peers : PeerStopSearch(p)
  \/ \E p \in Peers, content \in Contents, allowed \in RateLimitOutcomes :
       PeerSendMessage(p, content, allowed)
  \/ \E p \in Peers : PeerEndChat(p)
  \/ \E p \in Peers : PeerDisconnect(p)
  \/ \E i \in 1..MaxInFlight : ClientMessageCreated(i)
  \/ \E i \in 1..MaxInFlight : ClientMessageRejected(i)

SpecClient == Init /\ [][NextClient]_vars

TypeOK ==
  /\ status \in [Conns -> {"new", "open", "closed"}]
  /\ user \in [Conns -> Emails \cup {NoUser}]
  /\ Range(waitingUsers) \subseteq Conns
  /\ DOMAIN activeChats \subseteq Conns
  /\ Len(pending) <= MaxInFlight

\* ================================================================ claims
Open(c) == status[c] = "open"

\* how many notifications `ev` the handler output `out` delivers to socket c
Count(out, c, ev) == Cardinality({k \in DOMAIN out : out[k].to = c /\ out[k].ev = ev})

\* s without its k-th element, written out
Without(s, k) == [i \in 1..(Len(s) - 1) |-> IF i < k THEN s[i] ELSE s[i + 1]]

\* C1: in every reachable state the Session Table is symmetric: an entry
\* c -> (p, r) has p # c and comes with the entry p -> (c, r).
C1_SessionTableSymmetric ==
  \A c \in DOMAIN activeChats :
    LET p == activeChats[c].partnerId
    IN /\ p # c
       /\ p \in DOMAIN activeChats
       /\ activeChats[p] = [partnerId |-> c, roomId |-> activeChats[c].roomId]

\* C2: a search request from a socket that has a Session Table entry leaves
\* the Waiting Pool and the Session Table unchanged.
C2_SearchWhenMatchedIgnored ==
  [][\A c \in Conns, allowed \in RateLimitOutcomes :
       (c \in DOMAIN activeChats /\ Search(c, allowed))
         => UNCHANGED <<waitingUsers, activeChats>>]_vars

\* C3: in every reachable state the two sockets of a session have different
\* identities (user emails).
C3_NoSelfMatch ==
  \A c \in DOMAIN activeChats : user[c] # user[activeChats[c].partnerId]

C5_Fairness ==
  \A c \in Conns :
    LET r == SearchResult(c, TRUE)
    IN (Open(c) /\ Len(r.waitingUsers) < Len(waitingUsers)) =>
         \E k \in DOMAIN waitingUsers :
           /\ c \in DOMAIN r.activeChats
           /\ r.activeChats[c].partnerId = waitingUsers[k]
           /\ user[waitingUsers[k]] # user[c]
           /\ \A j \in 1..(k - 1) : user[waitingUsers[j]] = user[c]
           /\ r.waitingUsers = Without(waitingUsers, k)

\* a searcher finds a socket of its own identity at the head of the queue and
\* a socket of another identity behind it
C5_Witness ==
  \E c \in Conns :
    /\ Open(c) /\ user[c] # NoUser /\ ~InQueue(c)
    /\ Len(waitingUsers) >= 2
    /\ user[waitingUsers[1]] = user[c]
    /\ user[waitingUsers[2]] # user[c]

\* C6: when a socket ends the chat or disconnects, its entry and its
\* partner's entry are removed in that transition, and no transition removes
\* the entry of one member of a session while the other member keeps its own.
C6_SymmetricTeardown ==
  [][/\ \A c \in DOMAIN activeChats :
          (EndChat(c) \/ Disconnect(c)) =>
            /\ c \notin DOMAIN activeChats'
            /\ activeChats[c].partnerId \notin DOMAIN activeChats'
     /\ \A x \in DOMAIN activeChats :
          x \notin DOMAIN activeChats' =>
            activeChats[x].partnerId \notin DOMAIN activeChats']_vars

\* a session between a and b exists when the entry of either names the other
SessionBetween(a, b) ==
  \/ a \in DOMAIN activeChats /\ activeChats[a].partnerId = b
  \/ b \in DOMAIN activeChats /\ activeChats[b].partnerId = a

\* C7: while a session between a and b exists, an endChat from a and a
\* disconnect of a each deliver exactly one partnerDisconnected to b.
C7_ExactlyOnePartnerDisconnected ==
  \A a, b \in Conns :
    (a # b /\ Open(a) /\ Open(b) /\ SessionBetween(a, b)) =>
      /\ Count(EndChatResult(a).sent, b, "partnerDisconnected") = 1
      /\ Count(DisconnectResult(a).sent, b, "partnerDisconnected") = 1

\* C8: a message whose handler is suspended on Message.create is delivered
\* only while the session it was sent in still exists: once the sender's
\* entry for that room is gone, completing the write delivers nothing.
C8_SilenceAfterTeardown ==
  \A i \in DOMAIN pending :
    pending[i].op = "message" =>
      LET from == pending[i].c
          out == MessageCreatedResult(i).sent
      IN \A k \in DOMAIN out :
           /\ from \in DOMAIN activeChats
           /\ activeChats[from] = [partnerId |-> out[k].to, roomId |-> pending[i].roomId]

Idle(c) ==
  /\ Open(c)
  /\ user[c] # NoUser
  /\ ~InQueue(c)
  /\ c \notin DOMAIN activeChats

Eligible(c) == {i \in DOMAIN waitingUsers : user[waitingUsers[i]] # user[c]}

C10_RelayToPartnerOnly ==
  \A i \in DOMAIN pending :
    pending[i].op = "message" =>
      LET from == pending[i].c
          out == MessageCreatedResult(i).sent
      IN /\ Len(out) <= 1
         /\ \A k \in DOMAIN out :
              /\ out[k].to # from
              /\ from \in DOMAIN activeChats
              /\ activeChats[from].partnerId = out[k].to
              /\ out[k].to \in DOMAIN activeChats
              /\ activeChats[out[k].to].partnerId = from

\* c and p are in a session with each other: each entry names the other
Partners(c, p) ==
  /\ c \in DOMAIN activeChats /\ activeChats[c].partnerId = p
  /\ p \in DOMAIN activeChats /\ activeChats[p].partnerId = c
  /\ activeChats[p].roomId = activeChats[c].roomId

\* C11: the partner receives a valid message of a matched socket whether the
\* persistence write succeeds or fails: when Message.create rejects for a
\* message whose sender and partner are still in their session, the partner
\* is still sent one receiveMessage.
C11_RelayIndependentOfPersistence ==
  \A i \in DOMAIN pending :
    \A p \in Conns :
      ( /\ pending[i].op = "message"
        /\ Open(pending[i].c) /\ Open(p)
        /\ Partners(pending[i].c, p)
        /\ activeChats[p].roomId = pending[i].roomId )
      => Count(MessageRejectedResult(i).sent, p, "receiveMessage") = 1

\* C12: when two messages of one sender in one session are both delivered,
\* the one sent first is delivered first: no write completes and delivers its
\* message while an earlier message of the same sender and room is still
\* awaiting its own write and will be delivered after it.
C12_MessagesKeepOrder ==
  [][\A j \in DOMAIN pending :
       (MessageCreated(j) /\ MessageCreatedResult(j).sent # <<>>) =>
         \A i \in 1..(j - 1) :
           ~ ( /\ pending[i].op = "message"
               /\ pending[i].c = pending[j].c
               /\ pending[i].roomId = pending[j].roomId
               /\ pending[i].content # pending[j].content
               /\ MessageCreatedResult(i).sent # <<>> )]_vars

\* what is left of a waiting socket c after a handler with outcome r closed it
Cancelled(c, r) ==
  /\ r.status[c] = "closed"
  /\ \E k \in DOMAIN waitingUsers :
       waitingUsers[k] = c /\ r.waitingUsers = Without(waitingUsers, k)
  /\ c \notin DOMAIN r.activeChats

\* C13: a socket that disconnects while it waits is removed from the Waiting
\* Pool in that transition, whichever way the connection ends; a closed
\* socket is never in the pool or in the Session Table, and no search of
\* another socket gives it an entry or sends it `matched`.
C13_DisconnectCancelsSearch ==
  /\ \A c \in Conns :
       (Open(c) /\ InQueue(c)) =>
         /\ Cancelled(c, DisconnectResult(c))
         /\ Cancelled(c, LoginResult(c, BadToken))
         /\ \A i \in DOMAIN pending :
              (pending[i].op = "login" /\ pending[i].c = c) =>
                Cancelled(c, LoginRejectedResult(i))
  /\ \A c \in Conns :
       status[c] = "closed" =>
         /\ c \notin Range(waitingUsers)
         /\ c \notin DOMAIN activeChats
         /\ \A d \in Conns, allowed \in RateLimitOutcomes :
              Open(d) =>
                /\ c \notin DOMAIN SearchResult(d, allowed).activeChats
                /\ Count(SearchResult(d, allowed).sent, c, "matched") = 0

\* a socket waits while an idle socket of another identity could search, and
\* a socket that has closed before holds an identity different from the idle one
C13_Witness ==
  \E c, d, e \in Conns :
    /\ Open(c) /\ InQueue(c)
    /\ Idle(d) /\ user[d] # user[c]
    /\ status[e] = "closed" /\ user[e] # NoUser /\ user[e] # user[d]

\* C14: a search request of a socket with no identity is answered with
\* `unauthorized`, closes the connection, and leaves the Waiting Pool and
\* the Session Table unchanged.
C14_UnauthorizedSearchDropsConnection ==
  \A c \in Conns, allowed \in RateLimitOutcomes :
    (Open(c) /\ user[c] = NoUser) =>
      LET r == SearchResult(c, allowed)
      IN /\ r.sent = <<Note(c, "unauthorized", c, NoRoom, <<>>)>>
         /\ r.status[c] = "closed"
         /\ r.waitingUsers = waitingUsers
         /\ r.activeChats = activeChats

\* C15: stopSearch of a waiting socket removes it from the Waiting Pool,
\* keeps the order of the others and the Session Table, and sends it one
\* `searchStopped`; a socket that is not in the pool is not put there, not
\* matched and not sent `matched` by the search of any other socket.
C15_StopSearchLeavesPool ==
  /\ \A c \in Conns :
       (Open(c) /\ InQueue(c)) =>
         LET r == StopSearchResult(c)
         IN /\ \E k \in DOMAIN waitingUsers :
                 waitingUsers[k] = c /\ r.waitingUsers = Without(waitingUsers, k)
            /\ r.activeChats = activeChats
            /\ r.sent = <<Note(c, "searchStopped", c, NoRoom, <<>>)>>
  /\ \A c, d \in Conns, allowed \in RateLimitOutcomes :
       (c # d /\ Open(d) /\ ~InQueue(c)) =>
         LET r == SearchResult(d, allowed)
         IN /\ Count(r.sent, c, "matched") = 0
            /\ c \notin Range(r.waitingUsers)
            /\ (c \in DOMAIN r.activeChats) = (c \in DOMAIN activeChats)
            /\ c \in DOMAIN activeChats => r.activeChats[c] = activeChats[c]

\* a socket waits at the head of the pool with another socket behind it
C15_Witness ==
  /\ Len(waitingUsers) >= 2
  /\ Open(waitingUsers[1])
  /\ waitingUsers[1] \notin DOMAIN activeChats

\* C16: stopSearch of a socket that is not in the Waiting Pool changes
\* nothing and sends no notification to anyone.
C16_StopSearchNoOp ==
  \A c \in Conns :
    (Open(c) /\ ~InQueue(c)) => StopSearchResult(c) = Cur

\* C17: a sendMessage or an endChat of a socket without a Session Table entry
\* sends no notification, starts no persistence write, and changes neither
\* the Waiting Pool nor the Session Table.
C17_InvalidStateDropped ==
  \A c \in Conns :
    (Open(c) /\ c \notin DOMAIN activeChats) =>
      /\ \A content \in Contents \cup ChatContents, allowed \in RateLimitOutcomes :
           SendMessageResult(c, content, allowed) = Cur
      /\ EndChatResult(c) = Cur

\* an authenticated socket waits, without an entry, while two others chat
C17_Witness ==
  \E c \in Conns :
    /\ Open(c) /\ user[c] # NoUser /\ InQueue(c)
    /\ c \notin DOMAIN activeChats
    /\ activeChats # <<>>

\* C18: when endChat or disconnect of one member tears a session down, the
\* member that stays connected has no Session Table entry and is not in the
\* Waiting Pool.
C18_IdleAfterTeardown ==
  \A c, p \in Conns :
    (Open(c) /\ Open(p) /\ Partners(c, p)) =>
      /\ p \notin DOMAIN EndChatResult(c).activeChats
      /\ p \notin Range(EndChatResult(c).waitingUsers)
      /\ p \notin DOMAIN DisconnectResult(c).activeChats
      /\ p \notin Range(DisconnectResult(c).waitingUsers)

\* C19: once a socket has an identity, no step changes it.
C19_IdentitySetOnce ==
  [][\A c \in Conns : user[c] # NoUser => user'[c] = user[c]]_vars

\* the contents a client may put in a sendMessage
C20Contents ==
  Contents \cup ChatContents \cup {<<>>, <<SP, SP>>, <<CH>>, <<CH, SP, CH>>}

\* the positions of s that hold something else than whitespace
NonSpace(s) == {i \in DOMAIN s : s[i] # SP}

\* s from its first to its last character that is not whitespace
Trimmed(s) ==
  IF NonSpace(s) = {} THEN <<>>
  ELSE LET first == CHOOSE i \in NonSpace(s) : \A j \in NonSpace(s) : i <= j
           last == CHOOSE i \in NonSpace(s) : \A j \in NonSpace(s) : i >= j
       IN [i \in 1..(last - first + 1) |-> s[first + i - 1]]

\* what the partner is to receive for a content: trimmed, then cut to the limit
Delivered(content) ==
  LET t == Trimmed(content)
  IN [i \in 1..Min(Len(t), MAX_MESSAGE_LENGTH) |-> t[i]]

\* for every content, whether it is to be rejected and what is to be delivered
Expected ==
  [content \in C20Contents |->
     [rejected |-> ~IsString(content) \/ Trimmed(content) = <<>>,
      delivered |-> Delivered(content)]]

Rejected(content) == Expected[content].rejected

\* C20: a sendMessage whose content is not a string or is empty after
\* trimming changes nothing, delivers nothing and starts no write; an accepted
\* message is written and delivered with the content trimmed and cut to
\* MAX_MESSAGE_LENGTH characters, which is never empty.
C20_MessageValidation ==
  /\ \A c \in Conns, content \in C20Contents, allowed \in RateLimitOutcomes :
       Open(c) =>
         LET r == SendMessageResult(c, content, allowed)
         IN IF Rejected(content)
            THEN r = Cur
            ELSE /\ r.sent = <<>>
                 /\ \/ r = Cur
                    \/ /\ c \in DOMAIN activeChats
                       /\ r.pending =
                            Append(pending, PendingOp("message", c, NoUser,
                                                      activeChats[c].roomId,
                                                      Expected[content].delivered))
                 /\ (allowed /\ c \in DOMAIN activeChats /\ user[c] # NoUser)
                      => r # Cur
  /\ \A i \in DOMAIN pending :
       pending[i].op = "message" =>
         /\ \E content \in C20Contents :
              ~Rejected(content) /\ pending[i].content = Expected[content].delivered
         /\ pending[i].content # <<>>
         /\ Len(pending[i].content) <= MAX_MESSAGE_LENGTH
         /\ \A k \in DOMAIN MessageCreatedResult(i).sent :
              MessageCreatedResult(i).sent[k].content = pending[i].content

\* a message that needed trimming and cutting awaits its write while its
\* sender and the partner are still matched
C20_Witness ==
  \E i \in DOMAIN pending, p \in Conns :
    /\ pending[i].op = "message"
    /\ Len(pending[i].content) = MAX_MESSAGE_LENGTH
    /\ Open(p) /\ Partners(pending[i].c, p)
    /\ MessageCreatedResult(i).sent # <<>>

\* C21 as stated: in whatever minute the observer watches, the limiter admits
\* at most 10 search requests and at most 30 sendMessage requests of a socket.
C21_AtMostPerMinute ==
  watch.start # NoMark => watch.seen <= MaxPerMinute(watch.action)

\* TRUE when the limiter refuses a request of socket c for the action now
Refuses(c, action) ==
  ~checkSocketRateLimit(socketRateLimits, now, LimiterKey(c, action),
                        MaxPerMinute(action)).ok

\* C21 amended: in a minute that begins when the socket's key has no running
\* window, the limiter admits at most 10 search requests and at most 30
\* sendMessage requests; no window ever counts more; a refused request leaves
\* the limiter, the Waiting Pool and the Session Table as they are and
\* notifies nobody.
C21_AtMostPerWindow ==
  /\ (watch.start # NoMark /\ watch.aligned) =>
       watch.seen <= MaxPerMinute(watch.action)
  /\ \A key \in DOMAIN socketRateLimits :
       /\ socketRateLimits[key].count >= 1
       /\ socketRateLimits[key].count <= MaxPerMinute(key[2])
  /\ \A c \in Conns, action \in LimitedActions :
       (Open(c) /\ Refuses(c, action)) =>
         /\ checkSocketRateLimit(socketRateLimits, now, LimiterKey(c, action),
                                 MaxPerMinute(action)).limits = socketRateLimits
         /\ user[c] # NoUser => SearchResult(c, FALSE) = Cur
         /\ \A content \in Contents : SendMessageResult(c, content, FALSE) = Cur

\* the observer's minute began with a fresh window, the limit has been
\* admitted in it, and the next request of the socket is refused
C21_Witness ==
  /\ watch.start # NoMark /\ watch.aligned
  /\ watch.seen = MaxPerMinute(watch.action)
  /\ Open(watch.c) /\ user[watch.c] # NoUser
  /\ Refuses(watch.c, watch.action)

\* the sessions of the Session Table: the rooms its entries name
Sessions == {activeChats[c].roomId : c \in DOMAIN activeChats}

\* C22: the /health report's waitingQueue is the number of connections in the
\* Waiting Pool and its activeChats is a whole number, the number of active
\* sessions: the Session Table holds an even number of entries.
C22_HealthExact ==
  /\ health.waitingQueue = Cardinality(Range(waitingUsers))
  /\ health.activeChats.half = 0
  /\ health.activeChats.whole = Cardinality(Sessions)

\* C23: no Session Table entry belongs to, or names as partner, a connection
\* that has disconnected.
C23_NoStalePartner ==
  \A c \in DOMAIN activeChats :
    /\ status[c] = "open"
    /\ status[activeChats[c].partnerId] = "open"

\* TRUE when handler result r leaves the pool and the table alone and
\* notifies no connection but c
Harmless(c, r) ==
  /\ r.waitingUsers = waitingUsers
  /\ r.activeChats = activeChats
  /\ r.pending = pending
  /\ \A i \in DOMAIN r.sent : r.sent[i].to = c

\* C25: every connection in the Waiting Pool and every connection with a
\* Session Table entry has an identity, and a search, sendMessage or endChat
\* from a connection without identity changes neither the pool nor the table
\* and notifies no other connection.
C25_UnauthenticatedStayOut ==
  /\ \A c \in Range(waitingUsers) \cup DOMAIN activeChats : user[c] # NoUser
  /\ \A c \in Conns :
       (Open(c) /\ user[c] = NoUser) =>
         /\ \A allowed \in RateLimitOutcomes : Harmless(c, SearchResult(c, allowed))
         /\ \A content \in Contents, allowed \in RateLimitOutcomes :
              Harmless(c, SendMessageResult(c, content, allowed))
         /\ Harmless(c, EndChatResult(c))

\* a connection without identity is open while another waits and a session
\* exists: its search would find a partner if identity were not required
C25_Witness ==
  \E c \in Conns :
    /\ Open(c) /\ user[c] = NoUser
    /\ waitingUsers # <<>>
    /\ SearchResult(c, TRUE).sent # <<>>

\* C26: no connection is in the Waiting Pool and in the Session Table at the
\* same time.
C26_WaitingXorMatched ==
  \A c \in Conns : ~(InQueue(c) /\ c \in DOMAIN activeChats)

\* C27: all connections in the Waiting Pool share one identity.
C27_PoolSharesIdentity ==
  \A i, j \in DOMAIN waitingUsers :
    user[waitingUsers[i]] = user[waitingUsers[j]]

\* the client is in a chat with a partner whose socket is open, and the
\* store shows the partner as connected
ClientInChat ==
  /\ ClientReady
  /\ store.isMatched /\ store.partnerConnected
  /\ TheClient \in DOMAIN activeChats
  /\ Open(activeChats[TheClient].partnerId)

\* C24: when a matched user whose partner is connected submits a non-empty
\* message, the server's sendMessage handler accepts the payload the client
\* emits and relays the text that was typed.
C24_PayloadAccepted ==
  \A text \in ClientTexts :
    (ClientInChat /\ NotBlank(text)) =>
      /\ Accepts(TheClient, ContentOf(SendMessagePayload(text)), TRUE)
      /\ sanitizeInput(ContentOf(SendMessagePayload(text)), MAX_MESSAGE_LENGTH) = text

\* C28: the client's login has succeeded only if no unauthorized notification
\* was sent to it: none is on its way and the client still holds its token.
C28_ValidTokenNeverUnauthorized ==
  user[TheClient] # NoUser =>
    /\ store.authToken
    /\ \A i \in DOMAIN inbox : inbox[i].ev # "unauthorized"

\* TRUE when the client is about to handle a matched notification
AboutToMatch == Listening /\ inbox # <<>> /\ Head(inbox).ev = "matched"

\* C29: when the client handles a matched notification, the store it leaves
\* shows the partner as connected.
C29_PartnerConnectedOnMatch ==
  AboutToMatch => handleMatched(store).partnerConnected

\* C30: when the client enters a chat on a matched notification its message
\* list is empty, and outside a chat the list holds no message.
C30_NoMessageLeak ==
  /\ AboutToMatch => handleMatched(store).messages = <<>>
  /\ ~store.isMatched => store.messages = <<>>

====
